---- MODULE Spec2Model ----
(***************************************************************************)
(* Model of fusion360_docs_server_web.py: the retrying fetcher, the tree   *)
(* cache (load_toctree), the entry extractor (extract_api_entries), the    *)
(* search and class-lookup tools and the per-entry doc cache.              *)
(*                                                                         *)
(* Strings are sequences of one-character strings, so that substring       *)
(* tests, lower-casing, whitespace splitting and '/'-joining are computed  *)
(* as Python computes them.                                                *)
(***************************************************************************)
EXTENDS Integers, Sequences, FiniteSets, TLC

VARIABLES
    \* --- pure-function harness (extract_api_entries, search) ---
    in_node,        \* the node / tree handed to the function under test
    in_query,       \* query argument of search_api_documentation
    in_max,         \* max_results argument of search_api_documentation
    out_entries,    \* entries returned by extract_api_entries
    out_result,     \* value returned by search_api_documentation
    applied,        \* TRUE once the function under test has been applied
    \* --- fetch_with_retry harness ---
    fetch           \* the frame of one fetch_with_retry call

pureVars == <<in_node, in_query, in_max, out_entries, out_result, applied>>


-----------------------------------------------------------------------------
(* Strings *)

UpperChars == <<"A","B","C","D","E","F","G","H","I","J","K","L","M",
                "N","O","P","Q","R","S","T","U","V","W","X","Y","Z">>

LowerChars == <<"a","b","c","d","e","f","g","h","i","j","k","l","m",
                "n","o","p","q","r","s","t","u","v","w","x","y","z">>

\* str.lower() on one ASCII character
LowerChar(c) ==
    IF \E i \in 1..Len(UpperChars) : UpperChars[i] = c
    THEN LowerChars[CHOOSE i \in 1..Len(UpperChars) : UpperChars[i] = c]
    ELSE c

\* str.lower()
Lower(s) == [i \in 1..Len(s) |-> LowerChar(s[i])]

\* Python's `sub in s` on strings
Contains(sub, s) ==
    \E i \in 0..(Len(s) - Len(sub)) : SubSeq(s, i + 1, i + Len(sub)) = sub

IsSpace(c) == c = " "

\* str.split() with no argument: maximal runs of non-whitespace characters
RECURSIVE SplitFrom(_, _, _)
SplitFrom(s, i, cur) ==
    IF i > Len(s)
    THEN IF cur = <<>> THEN <<>> ELSE <<cur>>
    ELSE IF IsSpace(s[i])
         THEN (IF cur = <<>> THEN <<>> ELSE <<cur>>) \o SplitFrom(s, i + 1, <<>>)
         ELSE SplitFrom(s, i + 1, Append(cur, s[i]))

Split(s) == SplitFrom(s, 1, <<>>)

\* Python slice seq[:n] for any integer n
SliceTo(seq, n) ==
    IF n >= 0
    THEN SubSeq(seq, 1, IF n < Len(seq) THEN n ELSE Len(seq))
    ELSE SubSeq(seq, 1, IF Len(seq) + n > 0 THEN Len(seq) + n ELSE 0)

\* sep.join(parts)
RECURSIVE JoinWith(_, _)
JoinWith(sep, parts) ==
    IF parts = <<>> THEN <<>>
    ELSE IF Len(parts) = 1 THEN parts[1]
    ELSE parts[1] \o sep \o JoinWith(sep, Tail(parts))

RECURSIVE Flatten(_)
Flatten(seqs) ==
    IF seqs = <<>> THEN <<>> ELSE Head(seqs) \o Flatten(Tail(seqs))

-----------------------------------------------------------------------------
(* Constants of the program *)

BASE_URL == <<"h","t","t","p","s",":","/","/","h","e","l","p",".",
              "a","u","t","o","d","e","s","k",".","c","o","m">>

SLASH == <<"/">>

\* urljoin(BASE_URL, link) for a link without scheme or authority: the base
\* has an empty path, so the result is the base origin followed by the link,
\* with a '/' inserted when the link is relative.  An empty link gives the base.
UrlJoin(link) ==
    IF link = <<>> THEN BASE_URL
    ELSE IF link[1] = "/" THEN BASE_URL \o link
    ELSE BASE_URL \o SLASH \o link

-----------------------------------------------------------------------------
(* Retrying fetcher *)

\* the value None
None == [kind |-> "none"]

\* a str value
Text(body) == [kind |-> "text", body |-> body]

\* outcome of one `await client.get(...)` followed by raise_for_status():
\* a 2xx response carrying a body, or an exception (timeout, transport error,
\* non-2xx status)
Response(body) == [ok |-> TRUE, text |-> Text(body)]
RequestError == [ok |-> FALSE, text |-> None]

GetEvent(n) == [ev |-> "get", n |-> n]
SleepEvent(secs) == [ev |-> "sleep", n |-> secs]

\* no call in progress
NoFetch ==
    [url |-> <<>>, max_retries |-> 0, attempt |-> 0, at |-> "idle",
     trace |-> <<>>, response |-> RequestError, ret |-> None]

\* `attempt == max_retries - 1`
IsLastOffByOne(attempt, max_retries) == attempt = max_retries

is_last_attempt(attempt, max_retries) == attempt = max_retries - 1

\* the argument of asyncio.sleep: 1 * (attempt + 1)
backoff_delay(attempt) == 1 * (attempt + 1)

\* entry into fetch_with_retry: range(max_retries) is empty for max_retries <= 0
\* and the function returns None at once; otherwise the first GET is awaited
fetch_start(url, max_retries) ==
    IF max_retries <= 0
    THEN [url |-> url, max_retries |-> max_retries, attempt |-> 0,
          at |-> "returned", trace |-> <<>>, response |-> RequestError, ret |-> None]
    ELSE [url |-> url, max_retries |-> max_retries, attempt |-> 0,
          at |-> "get", trace |-> <<GetEvent(1)>>, response |-> RequestError,
          ret |-> None]

\* the awaited GET completes with `resp`
fetch_get_done(f, resp) ==
    IF resp.ok
    THEN [f EXCEPT !.response = resp, !.at = "returned", !.ret = resp.text]
    ELSE IF is_last_attempt(f.attempt, f.max_retries)
         THEN [f EXCEPT !.response = resp, !.at = "returned", !.ret = None]
         ELSE [f EXCEPT !.response = resp, !.at = "sleep",
                        !.trace = Append(@, SleepEvent(backoff_delay(f.attempt)))]

\* the awaited sleep completes: next iteration of the loop, or the loop is
\* exhausted and the trailing `return None` is reached
fetch_sleep_done(f) ==
    IF f.attempt + 1 < f.max_retries
    THEN [f EXCEPT !.attempt = @ + 1, !.at = "get",
                   !.trace = Append(@, GetEvent(f.attempt + 2))]
    ELSE [f EXCEPT !.attempt = @ + 1, !.at = "returned", !.ret = None]

-----------------------------------------------------------------------------
(* Entry extractor *)

\* A mapping node is [kind |-> "map", ttl, ln, id, children]; an absent field
\* reads as the default node.get gives it ("" or []), so it is modelled by that
\* default.  A sequence node is [kind |-> "list", items].
MapNode(t, l, i, ch) == [kind |-> "map", ttl |-> t, ln |-> l, id |-> i, children |-> ch]
ListNode(items) == [kind |-> "list", items |-> items]

api_indicators ==
    << <<"A","P","I">>, <<"C","l","a","s","s">>, <<"M","e","t","h","o","d">>,
       <<"P","r","o","p","e","r","t","y">>, <<"F","u","n","c","t","i","o","n">>,
       <<"O","b","j","e","c","t">>, <<"D","e","f","i","n","i","t","i","o","n">>,
       <<"I","n","t","e","r","f","a","c","e">>, <<"R","e","f","e","r","e","n","c","e">>,
       <<"P","r","o","g","r","a","m","m","i","n","g">> >>

lower_indicators ==
    << <<"c","l","a","s","s">>, <<"o","b","j","e","c","t">>,
       <<"m","e","t","h","o","d">>, <<"p","r","o","p","e","r","t","y">> >>

FUSION_API == <<"F","u","s","i","o","n","-","3","6","0","-","A","P","I">>

is_api_related(title, link) ==
    \/ \E k \in 1..Len(api_indicators) : Contains(api_indicators[k], title)
    \/ (link # <<>> /\ Contains(FUSION_API, link))
    \/ \E k \in 1..Len(lower_indicators) :
           Contains(Lower(lower_indicators[k]), Lower(title))

\* the path handed to the children of a mapping node
ChildPathAlwaysSlash(path, title) == path \o SLASH \o title

child_path(path, title) ==
    IF path # <<>> THEN path \o SLASH \o title ELSE title

MakeEntry(node, path) ==
    [title |-> node.ttl, url |-> UrlJoin(node.ln), link |-> node.ln,
     id |-> node.id, path |-> path]

RECURSIVE extract_api_entries(_, _)
extract_api_entries(node, path) ==
    IF node.kind = "map"
    THEN (IF is_api_related(node.ttl, node.ln) /\ node.ln # <<>>
          THEN <<MakeEntry(node, path)>> ELSE <<>>)
         \o (IF node.children # <<>>
             THEN Flatten([k \in 1..Len(node.children) |->
                      extract_api_entries(node.children[k],
                                          child_path(path, node.ttl))])
             ELSE <<>>)
    ELSE Flatten([k \in 1..Len(node.items) |->
                      extract_api_entries(node.items[k], path)])

\* The same walk, returning for each emitted entry the titles of its mapping
\* ancestors, root first (what the walk has passed through, not what it
\* computed from them).
RECURSIVE ancestor_titles(_, _)
ancestor_titles(node, chain) ==
    IF node.kind = "map"
    THEN (IF is_api_related(node.ttl, node.ln) /\ node.ln # <<>>
          THEN <<chain>> ELSE <<>>)
         \o (IF node.children # <<>>
             THEN Flatten([k \in 1..Len(node.children) |->
                      ancestor_titles(node.children[k], Append(chain, node.ttl))])
             ELSE <<>>)
    ELSE Flatten([k \in 1..Len(node.items) |->
                      ancestor_titles(node.items[k], chain)])

-----------------------------------------------------------------------------
(* Trees as load_toctree returns them, and the search tool *)

\* A loaded tree is a JSON object; the only key the tools read is "books".
\* EMPTY_DICT is {} (falsy); TreeOf(books) is {"books": books} (truthy).
EMPTY_DICT == [kind |-> "dict", has_books |-> FALSE, books |-> <<>>]
TreeOf(books) == [kind |-> "dict", has_books |-> TRUE, books |-> books]

\* bool(toctree) for a dict
Truthy(toctree) == toctree.has_books

\* api_entries as every tool builds it: extract_api_entries(book) per book
all_api_entries(toctree) ==
    Flatten([k \in 1..Len(toctree.books) |->
                 extract_api_entries(toctree.books[k], <<>>)])

\* the (score, entry) pairs of the scoring loop, in extraction order
RECURSIVE score_matches(_, _)
score_matches(api_entries, query_lower) ==
    IF api_entries = <<>> THEN <<>>
    ELSE LET entry == Head(api_entries)
             title_lower == Lower(entry.title)
             words == Split(query_lower)
             rest == score_matches(Tail(api_entries), query_lower)
         IN  IF Contains(query_lower, title_lower)
             THEN <<[score |-> 10, entry |-> entry]>> \o rest
             ELSE IF \E w \in 1..Len(words) : Contains(words[w], title_lower)
                  THEN <<[score |-> 5, entry |-> entry]>> \o rest
                  ELSE rest

\* list.sort(key=score, reverse=True): a stable sort, so an element is placed
\* after every earlier element whose score is at least its own
RECURSIVE InsertByScore(_, _)
InsertByScore(sorted, m) ==
    IF sorted = <<>> THEN <<m>>
    ELSE IF Head(sorted).score >= m.score
         THEN <<Head(sorted)>> \o InsertByScore(Tail(sorted), m)
         ELSE <<m>> \o sorted

RECURSIVE SortFrom(_, _)
SortFrom(done, todo) ==
    IF todo = <<>> THEN done
    ELSE SortFrom(InsertByScore(done, Head(todo)), Tail(todo))

SortUnsorted(matches) == matches

sort_by_score(matches) == SortFrom(<<>>, matches)

LimitIgnored(matches, max_results) == matches

\* matches[:max_results]
limit_results(matches, max_results) == SliceTo(matches, max_results)

RenderAlways(query, matches) ==
    [kind |-> "results", query |-> query,
     items |-> [k \in 1..Len(matches) |->
                   [title |-> matches[k].entry.title,
                    url |-> matches[k].entry.url,
                    path |-> matches[k].entry.path]]]

\* the text returned for the (sorted, truncated) matches: the no-results
\* message, or the header followed by one block (title, URL, path) per match
render_search(query, matches) ==
    IF matches = <<>>
    THEN [kind |-> "no_results", query |-> query, items |-> <<>>]
    ELSE [kind |-> "results", query |-> query,
          items |-> [k \in 1..Len(matches) |->
                        [title |-> matches[k].entry.title,
                         url |-> matches[k].entry.url,
                         path |-> matches[k].entry.path]]]

FAILED_TO_LOAD == [kind |-> "failed_to_load", query |-> <<>>, items |-> <<>>]

\* search_api_documentation after `toctree = await load_toctree()`
search_api_documentation(toctree, query, max_results) ==
    IF ~Truthy(toctree) THEN FAILED_TO_LOAD
    ELSE render_search(query,
             limit_results(
                 sort_by_score(score_matches(all_api_entries(toctree), Lower(query))),
                 max_results))

-----------------------------------------------------------------------------
(* Titles, links, ids and queries used as inputs *)

T_EMPTY == <<>>
T_API == <<"A","P","I">>
T_B == <<"b">>
L_NONE == <<>>
L_FUSION == <<"/","F","u","s","i","o","n","-","3","6","0","-","A","P","I">>
ID_X == <<"x">>

T_SKETCH_CLASS == <<"S","k","e","t","c","h"," ","C","l","a","s","s">>
T_SKETCHPOINT == <<"S","k","e","t","c","h","P","o","i","n","t"," ",
                   "P","r","o","p","e","r","t","y">>
T_EXTRUDE == <<"E","x","t","r","u","d","e"," ","M","e","t","h","o","d">>
L_SC == <<"/","s","c">>
L_SP == <<"/","s","p">>
L_EM == <<"/","e","m">>
ID_SC == <<"s","c">>
ID_SP == <<"s","p">>
ID_EM == <<"e","m">>

N_SC == MapNode(T_SKETCH_CLASS, L_SC, ID_SC, <<>>)
N_SP == MapNode(T_SKETCHPOINT, L_SP, ID_SP, <<>>)
N_EM == MapNode(T_EXTRUDE, L_EM, ID_EM, <<>>)
N_NOLINK == MapNode(T_SKETCH_CLASS, L_NONE, ID_SC, <<>>)

Q_SKETCH == <<"s","k","e","t","c","h">>
Q_SKETCH_CLASS == <<"S","K","E","T","C","H"," ","c","l","a","s","s">>
Q_METHOD_POINT == <<"m","e","t","h","o","d"," "," ","P","o","i","n","t">>
Q_NONE == <<"z","z">>
Q_EMPTY == <<>>
Q_BLANK == <<" ">>

-----------------------------------------------------------------------------
(* Text bodies, cache files and the document parser *)

\* The body of a str: whether it is "" (falsy), whether json.loads accepts it,
\* and the value it denotes (the JSON value, or the page of an HTML body).
EmptyBody == [empty |-> TRUE, valid |-> FALSE, data |-> None]
GarbageBody == [empty |-> FALSE, valid |-> FALSE, data |-> None]
\* json.dumps(obj); json.loads gives obj back
JsonBody(obj) == [empty |-> FALSE, valid |-> TRUE, data |-> obj]
\* the markup of the page served at `url`
HtmlBody(url) == [empty |-> FALSE, valid |-> FALSE, data |-> [page |-> url]]

\* bool(content) for content: Optional[str]
TruthyText(content) == content.kind = "text" /\ ~content.body.empty

\* a path that does not exist / a file holding `body`
NoFile == [exists |-> FALSE, content |-> EmptyBody]
FileOf(body) == [exists |-> TRUE, content |-> body]

\* open(path, 'w') + json.dump(obj, f): "ok" replaces the file; "fail_open"
\* raises before the file is touched; "fail_write" raises after open() has
\* truncated it
WriteOutcomes == {"ok", "fail_open", "fail_write"}

write_file(file, obj, outcome) ==
    IF outcome = "ok" THEN FileOf(JsonBody(obj))
    ELSE IF outcome = "fail_write" THEN FileOf(EmptyBody)
    ELSE file

\* parse_api_documentation(html_content, url): the title is taken from the
\* markup, the url is the one passed in
parse_api_documentation(html_content, url) ==
    [title |-> html_content.body.data.page, url |-> url]

-----------------------------------------------------------------------------
(* Tree cache: load_toctree *)

\* `if toctree_data:` the slot check of load_toctree
SlotCheckNever(slot) == FALSE

slot_populated(slot) == Truthy(slot)

\* load_toctree up to its first suspension.  w = [slot, tfile]; read_ok says
\* whether reading an existing cache file raises.  `done` is FALSE when the
\* call goes on to await fetch_with_retry.
load_sync(w, read_ok) ==
    IF slot_populated(w.slot)
    THEN [slot |-> w.slot, done |-> TRUE, tree |-> w.slot, io |-> {"slot_hit"}]
    ELSE IF w.tfile.exists
         THEN IF read_ok /\ w.tfile.content.valid
              THEN [slot |-> w.tfile.content.data, done |-> TRUE,
                    tree |-> w.tfile.content.data, io |-> {"read_tree"}]
              ELSE [slot |-> w.slot, done |-> FALSE, tree |-> EMPTY_DICT,
                    io |-> {"read_tree", "read_tree_error", "fetch_tree"}]
         ELSE [slot |-> w.slot, done |-> FALSE, tree |-> EMPTY_DICT,
               io |-> {"fetch_tree"}]

\* the except clause around the write of the tree cache file catches
\* json.JSONDecodeError only, so an OSError raised by open() or by the dump
\* leaves load_toctree
tree_write_raises(outcome) == outcome # "ok"

\* load_toctree after fetch_with_retry returned `content`
load_finish(w, content, outcome) ==
    IF ~TruthyText(content)
    THEN [slot |-> w.slot, tfile |-> w.tfile, tree |-> EMPTY_DICT,
          raised |-> FALSE, io |-> {}]
    ELSE IF ~content.body.valid
         THEN [slot |-> w.slot, tfile |-> w.tfile, tree |-> EMPTY_DICT,
               raised |-> FALSE, io |-> {"bad_json"}]
         ELSE [slot |-> content.body.data,
               tfile |-> write_file(w.tfile, content.body.data, outcome),
               tree |-> content.body.data,
               raised |-> tree_write_raises(outcome),
               io |-> {IF outcome = "ok" THEN "write_tree" ELSE "write_tree_failed"}]

-----------------------------------------------------------------------------
(* Class detail lookup and the per-entry doc cache *)

\* entries whose lower-cased title contains the lower-cased class name
class_matches(api_entries, class_name) ==
    LET Hit(entry) == Contains(Lower(class_name), Lower(entry.title))
    IN  SelectSeq(api_entries, Hit)

BestIsLast(matches) == matches[Len(matches)]

\* best_match = class_matches[0]
best_match(matches) == matches[1]

NOT_FOUND(class_name) == [kind |-> "no_class", query |-> class_name, items |-> <<>>]

\* the detail block rendered from doc_info
render_class_info(class_name, doc_info) ==
    [kind |-> "class_info", query |-> class_name,
     items |-> <<[title |-> doc_info.title, url |-> doc_info.url]>>]

FallbackAll(class_name, matches) ==
    [kind |-> "matches", query |-> class_name,
     items |-> [k \in 1..Len(matches) |->
                   [title |-> matches[k].title, url |-> matches[k].url]]]

\* the listing of class_matches[:3] returned when no doc_info was obtained
render_fallback(class_name, matches) ==
    LET shown == SliceTo(matches, 3)
    IN  [kind |-> "matches", query |-> class_name,
         items |-> [k \in 1..Len(shown) |->
                       [title |-> shown[k].title, url |-> shown[k].url]]]

DocCacheIgnored(file, read_ok) == None

\* doc_info after the cache-file check: the parsed file, or None when the file
\* is missing or reading it raised
read_doc_cache(file, read_ok) ==
    IF file.exists /\ read_ok /\ file.content.valid
    THEN file.content.data
    ELSE None

RAISED == [kind |-> "raised", query |-> <<>>, items |-> <<>>]

\* default arguments of the tools and of fetch_with_retry
DEFAULT_MAX_RESULTS == 5
DEFAULT_MAX_RETRIES == 3

T_API_REF == <<"A","P","I"," ","R","e","f">>
L_API == <<"/","a","p","i">>
ID_MISSING == <<>>
Q_EXTRUDE == <<"e","x","t","r","u","d","e">>

\* the tree served at TOCTREE_URL: one book; the book and one child carry no id
SERVER_TREE ==
    TreeOf(<< MapNode(T_API_REF, L_API, ID_MISSING,
                      << N_SC, N_SP, MapNode(T_EXTRUDE, L_EM, ID_MISSING, <<>>) >>) >>)

\* a tree with no book
NO_BOOKS == TreeOf(<<>>)

ServerTrees == {EMPTY_DICT, NO_BOOKS, SERVER_TREE}

ServerQueries == {Q_SKETCH, Q_NONE}
ServerClassNames == {Q_EMPTY, Q_SKETCH, Q_EXTRUDE, Q_NONE}

\* The values the tools compute from the trees, queries and class names the
\* server is run with, tabulated once.
EntriesTable == [tr \in ServerTrees |-> all_api_entries(tr)]
SearchTable ==
    [tr \in ServerTrees, q \in ServerQueries |->
        search_api_documentation(tr, q, DEFAULT_MAX_RESULTS)]
MatchesTable ==
    [tr \in ServerTrees, c \in ServerClassNames |-> class_matches(EntriesTable[tr], c)]

\* get_api_class_info / search_api_documentation after load_toctree returned
\* `tree`, up to the return or to the await of the page fetch.  doc_read_ok
\* says whether reading an existing doc cache file raises.
tool_body(docs, tool, arg, max, tree, doc_read_ok) ==
    IF tool = "search"
    THEN [event |-> "return", result |-> SearchTable[tree, arg],
          io |-> {}, class_matches |-> <<>>]
    ELSE IF ~Truthy(tree)
    THEN [event |-> "return", result |-> FAILED_TO_LOAD, io |-> {},
          class_matches |-> <<>>]
    ELSE LET matches == MatchesTable[tree, arg]
         IN  IF matches = <<>>
             THEN [event |-> "return", result |-> NOT_FOUND(arg), io |-> {},
                   class_matches |-> matches]
             ELSE LET cache_file == docs[best_match(matches).id]
                      doc_info == read_doc_cache(cache_file, doc_read_ok)
                      tried == IF ~cache_file.exists THEN {}
                               ELSE IF doc_read_ok /\ cache_file.content.valid
                               THEN {"read_doc"}
                               ELSE {"read_doc", "read_doc_error"}
                  IN  IF doc_info # None
                      THEN [event |-> "return",
                            result |-> render_class_info(arg, doc_info),
                            io |-> tried \cup {"doc_hit"},
                            class_matches |-> matches]
                      ELSE [event |-> "suspend_doc", result |-> None,
                            io |-> tried \cup {"fetch_doc"},
                            class_matches |-> matches]

-----------------------------------------------------------------------------
(* The server: tool invocations as cooperative tasks on one thread.  A task
   runs uninterrupted from one await of network I/O to the next, so each
   action is the code between two suspension points.  The await of
   fetch_with_retry is one suspension: the retries and sleeps inside it touch
   no shared state, and it resumes with None or with the text of a response.
   Entering and leaving `async with httpx.AsyncClient()` is taken not to
   suspend.  The directories of ensure_cache_dir can always be created. *)

VARIABLES
    toctree_data,   \* the process-wide tree slot
    toctree_cache,  \* the file cache/toctree.json
    docs_cache,     \* the files cache/docs/<id>.json, by id
    remote_tree,    \* the document served at TOCTREE_URL (fixed during a run)
    tasks,          \* per task: where it is suspended, and its locals
    last,           \* what the most recent step did (observation only)
    load_started    \* some load_toctree call has started in this process

serverVars == <<toctree_data, toctree_cache, docs_cache, remote_tree, tasks, last,
                load_started>>

vars == <<in_node, in_query, in_max, out_entries, out_result, applied, fetch,
          toctree_data, toctree_cache, docs_cache, remote_tree, tasks, last,
          load_started>>

Tasks == {"t1", "t2"}

\* what `await fetch_with_retry(client, TOCTREE_URL)` can resume with: None
\* after the retries are exhausted, or the text of a 2xx response (empty, not
\* JSON, or the remote tree)
TreeFetchReturns ==
    {None, Text(EmptyBody), Text(GarbageBody), Text(JsonBody(remote_tree))}

\* the outcomes of the cache write that follows `content`, if one follows
WriteOutcomesAfter(content) ==
    IF TruthyText(content) /\ (content.body.valid \/ content.body.data # None)
    THEN WriteOutcomes ELSE {"ok"}

\* whether reading `file` can raise: only a file that exists is opened
ReadOutcomes(file) == IF file.exists THEN BOOLEAN ELSE {TRUE}

\* what `await fetch_with_retry(client, url)` can resume with for a page url
PageFetchReturns(url) == {None, Text(EmptyBody), Text(HtmlBody(url))}

DocIds == {EntriesTable[SERVER_TREE][k].id : k \in 1..Len(EntriesTable[SERVER_TREE])}

ToolCalls ==
    {[tool |-> "search", arg |-> q, max |-> DEFAULT_MAX_RESULTS] : q \in ServerQueries}
    \cup {[tool |-> "class_info", arg |-> c, max |-> 0] : c \in ServerClassNames}

IdleTask == [pc |-> "idle", tool |-> "none", arg |-> <<>>, max |-> 0,
             class_matches |-> <<>>]

NoEvent == [task |-> "none", step |-> "none", event |-> "none", tool |-> "none",
            arg |-> <<>>, later |-> FALSE, alone |-> FALSE, io |-> {},
            tree |-> EMPTY_DICT,
            result |-> None, class_matches |-> <<>>]

ServerOff ==
    /\ toctree_data = EMPTY_DICT
    /\ toctree_cache = NoFile
    /\ docs_cache = [i \in DocIds |-> NoFile]
    /\ remote_tree = EMPTY_DICT
    /\ tasks = [t \in Tasks |-> IdleTask]
    /\ last = NoEvent
    /\ load_started = FALSE

\* a fresh process; the tree cache file is whatever an earlier process left
Init ==
    /\ in_node = [kind |-> "list", items |-> <<>>]
    /\ in_query = <<>>
    /\ in_max = 0
    /\ out_entries = <<>>
    /\ out_result = None
    /\ applied = FALSE
    /\ fetch = NoFetch
    /\ toctree_data = EMPTY_DICT
    /\ remote_tree \in ServerTrees
    /\ toctree_cache \in {NoFile, FileOf(EmptyBody), FileOf(JsonBody(remote_tree))}
    /\ docs_cache = [i \in DocIds |-> NoFile]
    /\ tasks = [t \in Tasks |-> IdleTask]
    /\ last = NoEvent
    /\ load_started = FALSE

\* whether reading a doc cache file can raise
DocReadOutcomes ==
    IF \E i \in DocIds : docs_cache[i].exists THEN BOOLEAN ELSE {TRUE}

\* the task's state and the observation after the tool body ran
AfterBody(t, call, tb) ==
    IF tb.event = "return" THEN IdleTask
    ELSE [pc |-> "fetch_doc", tool |-> call.tool, arg |-> call.arg,
          max |-> call.max, class_matches |-> tb.class_matches]

\* a tool is invoked on an idle task: load_toctree runs to its return or to the
\* await of the tree fetch, and on return the tool body follows
Invoke(t) ==
    /\ tasks[t].pc = "idle"
    /\ \E call \in ToolCalls, read_ok \in ReadOutcomes(toctree_cache),
          doc_read_ok \in DocReadOutcomes :
        LET ld == load_sync([slot |-> toctree_data, tfile |-> toctree_cache], read_ok)
            tb == tool_body(docs_cache, call.tool, call.arg, call.max, ld.tree, doc_read_ok)
        IN  /\ toctree_data' = ld.slot
            /\ tasks' = [tasks EXCEPT ![t] =
                   IF ld.done THEN AfterBody(t, call, tb)
                   ELSE [pc |-> "fetch_tree", tool |-> call.tool, arg |-> call.arg,
                         max |-> call.max, class_matches |-> <<>>]]
            /\ last' = [task |-> t, step |-> "invoke",
                        event |-> IF ld.done THEN tb.event ELSE "suspend_tree",
                        tool |-> call.tool, arg |-> call.arg,
                        later |-> load_started,
                        alone |-> \A u \in Tasks \ {t} : tasks[u].pc = "idle",
                        io |-> IF ld.done THEN ld.io \cup tb.io ELSE ld.io,
                        tree |-> ld.tree,
                        result |-> IF ld.done THEN tb.result ELSE None,
                        class_matches |-> IF ld.done THEN tb.class_matches ELSE <<>>]
    /\ load_started' = TRUE
    /\ UNCHANGED <<toctree_cache, docs_cache, remote_tree>>
    /\ UNCHANGED <<pureVars, fetch>>

\* the tree fetch of a suspended load_toctree resumes: the rest of
\* load_toctree, then the tool body
TreeFetchDone(t) ==
    /\ tasks[t].pc = "fetch_tree"
    /\ \E content \in TreeFetchReturns, doc_read_ok \in DocReadOutcomes :
       \E outcome \in WriteOutcomesAfter(content) :
        LET call == tasks[t]
            lf == load_finish([slot |-> toctree_data, tfile |-> toctree_cache],
                              content, outcome)
            tb == tool_body(docs_cache, call.tool, call.arg, call.max, lf.tree, doc_read_ok)
        IN  /\ toctree_data' = lf.slot
            /\ toctree_cache' = lf.tfile
            /\ tasks' = [tasks EXCEPT ![t] =
                   IF lf.raised THEN IdleTask ELSE AfterBody(t, call, tb)]
            /\ last' = [task |-> t, step |-> "tree_done",
                        event |-> IF lf.raised THEN "return" ELSE tb.event,
                        tool |-> call.tool, arg |-> call.arg, later |-> FALSE,
                        alone |-> FALSE,
                        io |-> IF lf.raised THEN lf.io ELSE lf.io \cup tb.io,
                        tree |-> lf.tree,
                        result |-> IF lf.raised THEN RAISED ELSE tb.result,
                        class_matches |-> IF lf.raised THEN <<>> ELSE tb.class_matches]
    /\ UNCHANGED <<docs_cache, remote_tree, load_started>>
    /\ UNCHANGED <<pureVars, fetch>>

\* the page fetch of a suspended get_api_class_info resumes: parse and cache
\* the page and render it, or fall back to the listing
DocFetchDone(t) ==
    /\ tasks[t].pc = "fetch_doc"
    /\ LET call == tasks[t]
           best == best_match(call.class_matches)
       IN  \E html_content \in PageFetchReturns(best.url) :
           \E outcome \in WriteOutcomesAfter(html_content) :
            LET ok == TruthyText(html_content)
                doc_info == IF ok THEN parse_api_documentation(html_content, best.url)
                            ELSE None
            IN  /\ docs_cache' = IF ok
                       THEN [docs_cache EXCEPT ![best.id] = write_file(@, doc_info, outcome)]
                       ELSE docs_cache
                /\ tasks' = [tasks EXCEPT ![t] = IdleTask]
                /\ last' = [task |-> t, step |-> "doc_done", event |-> "return",
                            tool |-> call.tool, arg |-> call.arg, later |-> FALSE,
                            alone |-> FALSE,
                            io |-> IF ~ok THEN {"fetch_failed"}
                                   ELSE IF outcome = "ok" THEN {"write_doc"}
                                   ELSE {"write_doc_failed"},
                            tree |-> EMPTY_DICT,
                            result |-> IF ok THEN render_class_info(call.arg, doc_info)
                                       ELSE render_fallback(call.arg, call.class_matches),
                            class_matches |-> call.class_matches]
    /\ UNCHANGED <<toctree_data, toctree_cache, remote_tree, load_started>>
    /\ UNCHANGED <<pureVars, fetch>>

Next == \E t \in Tasks : Invoke(t) \/ TreeFetchDone(t) \/ DocFetchDone(t)

Spec == Init /\ [][Next]_vars

-----------------------------------------------------------------------------
(* Harness of the retrying fetcher *)

MaxRetriesBound == 4

U_TREE == <<"t","o","c">>
U_PAGE == <<"p","g">>
U_OTHER == <<"o">>
FetchUrls == {U_TREE, U_PAGE, U_OTHER}
B_EMPTY == <<>>
B_ONE == <<"1">>
B_TWO == <<"2">>
FetchBodies == {B_EMPTY, B_ONE, B_TWO}

InitFetch ==
    /\ in_node = [kind |-> "list", items |-> <<>>]
    /\ in_query = <<>>
    /\ in_max = 0
    /\ out_entries = <<>>
    /\ out_result = [kind |-> "none"]
    /\ applied = FALSE
    /\ fetch = NoFetch
    /\ ServerOff

\* fetch_with_retry(client, url, max_retries) is called
FetchCall ==
    /\ fetch.at = "idle"
    /\ \E u \in FetchUrls, n \in 0..MaxRetriesBound : fetch' = fetch_start(u, n)
    /\ UNCHANGED pureVars
    /\ UNCHANGED serverVars

FetchGetOk ==
    /\ fetch.at = "get"
    /\ \E b \in FetchBodies : fetch' = fetch_get_done(fetch, Response(b))
    /\ UNCHANGED pureVars
    /\ UNCHANGED serverVars

FetchGetFail ==
    /\ fetch.at = "get"
    /\ fetch' = fetch_get_done(fetch, RequestError)
    /\ UNCHANGED pureVars
    /\ UNCHANGED serverVars

FetchSleepDone ==
    /\ fetch.at = "sleep"
    /\ fetch' = fetch_sleep_done(fetch)
    /\ UNCHANGED pureVars
    /\ UNCHANGED serverVars

NextFetch == FetchCall \/ FetchGetOk \/ FetchGetFail \/ FetchSleepDone

SpecFetch == InitFetch /\ [][NextFetch]_vars

(* C2: the event trace of fetch_with_retry *)

Gets(trace) == Len(SelectSeq(trace, LAMBDA e : e.ev = "get"))
Sleeps(trace) == Len(SelectSeq(trace, LAMBDA e : e.ev = "sleep"))

C2_WitnessExhausted ==
    /\ fetch.at = "returned"
    /\ fetch.max_retries = DEFAULT_MAX_RETRIES
    /\ fetch.trace = <<GetEvent(1), SleepEvent(1), GetEvent(2), SleepEvent(2), GetEvent(3)>>
    /\ fetch.ret = None

-----------------------------------------------------------------------------
(* Inputs of the extractor harness *)

MaxDepth == 3

ExtractTitles == {T_EMPTY, T_API, T_B}
ExtractLinks == {L_NONE, L_FUSION}

SiblingLeaf == MapNode(T_API, L_FUSION, ID_X, <<>>)

\* all nodes of nesting depth at most d: a mapping has no child, one child,
\* or one child followed by a fixed sibling; a sequence has zero to two items
RECURSIVE NodesUpTo(_)
NodesUpTo(d) ==
    IF d = 0 THEN {}
    ELSE LET sub == NodesUpTo(d - 1)
             kids == {<<>>} \cup {<<n>> : n \in sub} \cup {<<n, SiblingLeaf>> : n \in sub}
         IN  {MapNode(t, l, ID_X, ch) : t \in ExtractTitles, l \in ExtractLinks, ch \in kids}
             \cup {ListNode(items) : items \in kids}

ExtractInputs == NodesUpTo(MaxDepth)

NoResult == None

InitExtract ==
    /\ in_node \in ExtractInputs
    /\ in_query = <<>>
    /\ in_max = 0
    /\ out_entries = <<>>
    /\ out_result = NoResult
    /\ applied = FALSE
    /\ fetch = NoFetch
    /\ ServerOff

\* one call extract_api_entries(node) with the default path ""
Extract ==
    /\ ~applied
    /\ out_entries' = extract_api_entries(in_node, <<>>)
    /\ applied' = TRUE
    /\ UNCHANGED <<in_node, in_query, in_max, out_result, fetch>>
    /\ UNCHANGED serverVars

NextExtract == Extract

SpecExtract == InitExtract /\ [][NextExtract]_vars

-----------------------------------------------------------------------------
(* Inputs of the search harness *)

MaxBooks == 3
MaxResults == 3
MaxNegative == 2

SearchNodes == {N_SC, N_SP, N_EM, N_NOLINK}

RECURSIVE SeqsUpTo(_, _)
SeqsUpTo(S, n) ==
    IF n = 0 THEN {<<>>}
    ELSE LET shorter == SeqsUpTo(S, n - 1)
         IN  shorter \cup {Append(q, x) : q \in shorter, x \in S}

SearchQueries == {Q_SKETCH, Q_SKETCH_CLASS, Q_METHOD_POINT, Q_NONE, Q_EMPTY, Q_BLANK}

SearchTrees == {EMPTY_DICT} \cup {TreeOf(b) : b \in SeqsUpTo(SearchNodes, MaxBooks)}

InitSearch ==
    /\ in_node \in SearchTrees
    /\ in_query \in SearchQueries
    /\ in_max \in (0 - MaxNegative)..MaxResults
    /\ out_entries = <<>>
    /\ out_result = NoResult
    /\ applied = FALSE
    /\ fetch = NoFetch
    /\ ServerOff

\* one call search_api_documentation(query, max_results) over the loaded tree;
\* out_entries keeps the api_entries the call extracted
Search ==
    /\ ~applied
    /\ out_entries' = IF Truthy(in_node) THEN all_api_entries(in_node) ELSE <<>>
    /\ out_result' = search_api_documentation(in_node, in_query, in_max)
    /\ applied' = TRUE
    /\ UNCHANGED <<in_node, in_query, in_max, fetch>>
    /\ UNCHANGED serverVars

NextSearch == Search

SpecSearch == InitSearch /\ [][NextSearch]_vars

-----------------------------------------------------------------------------
(* C6, C7: scoring, order and truncation of search results *)

SearchScore(title, query) ==
    IF Contains(Lower(query), Lower(title)) THEN 10
    ELSE IF \E tok \in {Split(Lower(query))[k] : k \in 1..Len(Split(Lower(query)))} :
                Contains(tok, Lower(title))
         THEN 5
         ELSE 0

EntriesScoring(n) ==
    LET Has(e) == SearchScore(e.title, in_query) = n
    IN  SelectSeq(out_entries, Has)

RankedEntries == EntriesScoring(10) \o EntriesScoring(5)

FirstN(seq, n) == SubSeq(seq, 1, IF n < Len(seq) THEN n ELSE Len(seq))

ItemOf(e) == [title |-> e.title, url |-> e.url, path |-> e.path]

\* the spec's scenario 2: "sketch" over the three entries with max_results = 2
C6_Scenario2 ==
    (applied /\ in_query = Q_SKETCH /\ in_max = 2
        /\ in_node = TreeOf(<<N_SC, N_SP, N_EM>>)) =>
        /\ Len(out_result.items) = 2
        /\ out_result.items[1].title = T_SKETCH_CLASS
        /\ out_result.items[2].title = T_SKETCHPOINT

\* C6: for a limit N >= 0 the rendered results are the score-10 entries
\* followed by the score-5 entries, each group in extraction order, cut to the
\* first N; entries scoring neither are excluded.  In particular "sketch" over
\* [Sketch Class, SketchPoint Property, Extrude Method] with limit 2 gives
\* [Sketch Class, SketchPoint Property].
C6_RankedStableTruncated ==
    /\ (applied /\ Truthy(in_node) /\ in_max >= 0) =>
           LET want == FirstN(RankedEntries, in_max)
           IN  out_result.items = [k \in 1..Len(want) |-> ItemOf(want[k])]
    /\ C6_Scenario2

\* a token-only match listed before a full match is rendered after it, and the
\* limit cuts the list
C6_Witness ==
    /\ applied
    /\ in_query = Q_SKETCH_CLASS
    /\ in_max = 2
    /\ in_node = TreeOf(<<N_SP, N_SC, N_SP>>)
    /\ Len(out_result.items) = 2
    /\ out_result.items[1].title = T_SKETCH_CLASS
    /\ out_result.items[2].title = T_SKETCHPOINT

RenderedCount == IF out_result.kind = "results" THEN Len(out_result.items) ELSE 0

\* C7 as stated: for every integer max_results = N the rendered result holds
\* at most N entries.
C7_NeverMoreThanN ==
    (applied /\ out_result.kind = "results") => RenderedCount <= in_max

\* C7 amended: for every max_results = N >= 0 the rendered result holds at
\* most N entries (a negative N drops the last |N| matches instead).
C7_NeverMoreThanNonNegativeN ==
    (applied /\ in_max >= 0) => RenderedCount <= in_max

\* more entries match than the limit allows, and the limit is met exactly
C7_Witness ==
    /\ applied
    /\ in_max = 1
    /\ Len(score_matches(out_entries, Lower(in_query))) = 3
    /\ RenderedCount = 1

-----------------------------------------------------------------------------
(* C10: paths of extracted entries *)

RECURSIVE DropLeadingEmpty(_)
DropLeadingEmpty(titles) ==
    IF titles = <<>> THEN <<>>
    ELSE IF Head(titles) = <<>> THEN DropLeadingEmpty(Tail(titles))
    ELSE titles

ExtractChains == ancestor_titles(in_node, <<>>)

\* C10 as stated: the path of every extracted entry is the '/'-joined chain of
\* the titles of all its mapping ancestors, root first.
C10_PathJoinsAllAncestors ==
    applied =>
        /\ Len(out_entries) = Len(ExtractChains)
        /\ \A i \in 1..Len(out_entries) :
               out_entries[i].path = JoinWith(SLASH, ExtractChains[i])

\* C10 amended: the path of every extracted entry is the '/'-joined chain of
\* the titles of its mapping ancestors, root first, after the leading run of
\* empty titles has been dropped (the separator is omitted while the path is
\* still empty); list nodes contribute nothing.
C10_PathJoinsAncestorsAfterLeadingEmpty ==
    applied =>
        /\ Len(out_entries) = Len(ExtractChains)
        /\ \A i \in 1..Len(out_entries) :
               out_entries[i].path =
                   JoinWith(SLASH, DropLeadingEmpty(ExtractChains[i]))

\* an entry whose ancestors are an untitled mapping and then a titled one has
\* been extracted, and its path is the title of the second alone
C10_Witness ==
    /\ applied
    /\ in_node.kind = "map"
    /\ in_node.ttl = T_EMPTY
    /\ \E i \in 1..Len(out_entries) :
           /\ Len(ExtractChains[i]) = 2
           /\ ExtractChains[i][1] = T_EMPTY
           /\ ExtractChains[i][2] = T_API
           /\ out_entries[i].path = T_API

-----------------------------------------------------------------------------
(* C1: single load per process *)

TreeLoadAttempted(io) == "read_tree" \in io \/ "fetch_tree" \in io

\* C1 as stated: whatever the outcome of the first load_toctree call, every
\* later call (here: one made while no other call is in progress) returns
\* without reading the tree cache file and without issuing a fetch.
C1_LaterCallsNeverLoad ==
    (last.step = "invoke" /\ last.later /\ last.alone) => ~TreeLoadAttempted(last.io)

\* C1 amended: every load_toctree call that finds the slot holding a non-empty
\* tree returns that tree without reading the tree cache file, without issuing
\* a fetch and without changing slot or file.
C1_PopulatedSlotNeverReloads ==
    [][(Truthy(toctree_data) /\ last'.step = "invoke") =>
          /\ ~TreeLoadAttempted(last'.io)
          /\ last'.event # "suspend_tree"
          /\ last'.tree = toctree_data
          /\ toctree_data' = toctree_data
          /\ toctree_cache' = toctree_cache]_vars

\* a call made after the first one found the slot populated and returned it
C1_Witness ==
    /\ last.step = "invoke"
    /\ last.later
    /\ last.alone
    /\ Truthy(toctree_data)
    /\ last.tree = toctree_data
    /\ ~TreeLoadAttempted(last.io)

-----------------------------------------------------------------------------
(* C3: doc cache entries are never refreshed *)

\* the entries of a tree whose title contains the name, ignoring case
TitleContains(tr, name) ==
    LET es == all_api_entries(tr)
        Hit(e) == Contains(Lower(name), Lower(e.title))
    IN  SelectSeq(es, Hit)

MatchingEntries == [tr \in ServerTrees, c \in ServerClassNames |-> TitleContains(tr, c)]

\* the entries of the remote tree matching the class name
NameMatches(name) == MatchingEntries[remote_tree, name]

LookupStep(ev) ==
    /\ ev.tool = "class_info"
    /\ ev.step \in {"invoke", "tree_done"}
    /\ ev.result # RAISED
    /\ ev.event # "suspend_tree"
    /\ Truthy(ev.tree)

\* C3: a get_api_class_info call that finds the cache file of the resolved id
\* present and readable returns the file's contents, issues no fetch and leaves
\* every cache file unchanged; a doc cache file changes only when a task that
\* missed the cache resumes from a successful page fetch, and then only the
\* file of the resolved id.
C3_CachedDocNeverRefreshed ==
    [][/\ (LookupStep(last') /\ NameMatches(last'.arg) # <<>>
           /\ docs_cache[NameMatches(last'.arg)[1].id].exists
           /\ docs_cache[NameMatches(last'.arg)[1].id].content.valid
           /\ "read_doc_error" \notin last'.io) =>
              /\ last'.event = "return"
              /\ last'.result =
                     render_class_info(last'.arg,
                         docs_cache[NameMatches(last'.arg)[1].id].content.data)
              /\ "fetch_doc" \notin last'.io
              /\ docs_cache' = docs_cache
       /\ docs_cache' # docs_cache =>
              /\ last'.step = "doc_done"
              /\ tasks[last'.task].pc = "fetch_doc"
              /\ last'.io \subseteq {"write_doc", "write_doc_failed"}
              /\ \A i \in DocIds :
                     i # NameMatches(last'.arg)[1].id => docs_cache'[i] = docs_cache[i]
      ]_vars

\* a lookup was answered from the cache file
C3_Witness ==
    /\ LookupStep(last)
    /\ "doc_hit" \in last.io
    /\ last.arg = Q_SKETCH
    /\ docs_cache[ID_SC].exists
    /\ last.result.kind = "class_info"

-----------------------------------------------------------------------------
(* C4: cache I/O errors *)

CacheIoError(io) ==
    io \cap {"read_tree_error", "read_doc_error", "write_tree_failed",
             "write_doc_failed"} # {}

\* C4: a step in which reading or writing a cache file failed does not raise
\* out of the tool: the call goes on with the tree or document it obtained.
C4_CacheErrorsSwallowed ==
    CacheIoError(last.io) => last.result # RAISED

-----------------------------------------------------------------------------
(* C5: the lock-free check-then-write under cooperative scheduling *)

SameDocFile(ev1, ev2) ==
    /\ ev1.class_matches # <<>>
    /\ ev2.class_matches # <<>>
    /\ ev1.class_matches[1].id = ev2.class_matches[1].id

-----------------------------------------------------------------------------
(* C8: no-match outcomes *)

NoSearchMatch == [tr \in ServerTrees, q \in ServerQueries |->
                     \A k \in 1..Len(all_api_entries(tr)) :
                         SearchScore(all_api_entries(tr)[k].title, q) = 0]

\* C8: a search over a loaded tree in which no entry matches (or which has no
\* entry) returns the no-results message, and a class lookup whose name
\* matches no entry returns the not-found message; no call returns a results
\* header, a detail block or a listing with nothing in it.
C8_NoMatchIsExplicit ==
    /\ (last.event = "return" /\ last.step \in {"invoke", "tree_done"}
        /\ last.result # RAISED /\ Truthy(last.tree)) =>
          /\ (last.tool = "search" /\ NoSearchMatch[last.tree, last.arg]) =>
                 last.result = [kind |-> "no_results", query |-> last.arg, items |-> <<>>]
          /\ (last.tool = "class_info" /\ MatchingEntries[last.tree, last.arg] = <<>>) =>
                 last.result = [kind |-> "no_class", query |-> last.arg, items |-> <<>>]
    /\ last.result.kind \in {"results", "class_info", "matches"} =>
           last.result.items # <<>>

\* a search over a tree without entries returned the no-results message
C8_Witness ==
    /\ last.event = "return"
    /\ last.tool = "search"
    /\ last.tree = NO_BOOKS
    /\ last.result.kind = "no_results"

\* a class lookup matching no entry returned the not-found message
C8_WitnessClass ==
    /\ last.event = "return"
    /\ last.tool = "class_info"
    /\ last.tree = SERVER_TREE
    /\ last.arg = Q_NONE
    /\ last.result.kind = "no_class"

-----------------------------------------------------------------------------
(* C9: class lookup resolves the first match only *)

EntryListing(matches) ==
    [k \in 1..Len(matches) |-> [title |-> matches[k].title, url |-> matches[k].url]]

\* C9: with k >= 1 matching entries the lookup consults the cache file of the
\* first match and fetches the first match's page, nothing else; when no
\* document is obtained it returns the listing of the first min(3, k) matches,
\* and it returns right after its one fetch.
C9_FirstMatchOnly ==
    (last.tool = "class_info" /\ last.class_matches # <<>>) =>
        LET m == NameMatches(last.arg)
            k == Len(m)
            first == m[1]
        IN  /\ k >= 1
            /\ last.class_matches = m
            /\ last.event = "suspend_doc" =>
                   /\ tasks[last.task].pc = "fetch_doc"
                   /\ best_match(tasks[last.task].class_matches) = first
            /\ "doc_hit" \in last.io =>
                   last.result =
                       render_class_info(last.arg, docs_cache[first.id].content.data)
            /\ last.step = "doc_done" =>
                   /\ last.event = "return"
                   /\ tasks[last.task].pc = "idle"
                   /\ "fetch_failed" \in last.io =>
                          last.result =
                              [kind |-> "matches", query |-> last.arg,
                               items |-> EntryListing(
                                   SubSeq(m, 1, IF k < 3 THEN k ELSE 3))]
                   /\ "fetch_failed" \notin last.io =>
                          /\ last.result.kind = "class_info"
                          /\ last.result.items[1].url = first.url
                          /\ last.result.items[1].title = first.url
                   /\ "write_doc" \in last.io =>
                          docs_cache[first.id] =
                              FileOf(JsonBody([title |-> first.url, url |-> first.url]))

\* four entries match, the fetch of the first failed and three are listed
C9_Witness ==
    /\ last.step = "doc_done"
    /\ "fetch_failed" \in last.io
    /\ Len(NameMatches(last.arg)) = 4
    /\ Len(last.result.items) = 3
    /\ last.result.items[1].title = T_API_REF

-----------------------------------------------------------------------------
(* C11: one cached document per entry *)

\* C11: the document rendered for a lookup whose first matching entry is e is
\* the parse of e's own page (the rendered url is e.url), and a cached
\* document is only ever rendered for the entry whose page it was parsed
\* from, also when ids are missing or shared.
C11_RenderedIsOwnPage ==
    (last.tool = "class_info" /\ last.event = "return"
        /\ last.result.kind = "class_info") =>
        LET e == NameMatches(last.arg)[1]
        IN  /\ last.result.items[1].url = e.url
            /\ "doc_hit" \in last.io =>
                   docs_cache[e.id].content.data.url = e.url

====
